---- MODULE Spec2Model ----
(***************************************************************************)
(* The temporary document store of the flipbook server                     *)
(* (server/src/index.js): the registry `documents`, the upload directory,  *)
(* the per-document eviction timers and the three document routes.         *)
(*                                                                         *)
(* Node runs the handlers on one thread: an action below is one run of     *)
(* JavaScript from the event that starts it to the next point where it     *)
(* yields (an await, a callback of fs).  The clock counts minutes.         *)
(***************************************************************************)
EXTENDS Integers, Sequences, FiniteSets, Bags, TLC

\* ----------------------------------------------------------------- bounds
MaxUploads == 1   \* files multer stores (ids it takes)
MaxInFlight == 2  \* requests waiting for the file system at one time
MaxTime == 1      \* clock ticks (minutes) after start
MaxCollisions == 1 \* uploads for which randomUUID() repeats an id
MaxSelections == 2 \* files the user selects in the viewer
MaxRegistrations == 2 \* files multer stores where the registry is looked at alone
MaxPages == 3     \* pages of a document in the Flipbook
FrameMs == 360    \* milliseconds from one animation frame to the next

\* ------------------------------------------------------- program constants
DefaultUploadLimitMb == 25
DefaultTtlMinutes == 30
BytesPerMb == 1048576
MsPerMinute == 60000
TURN_DURATION == 720
MaxRedirects == 5
\* progress and the argument of easeOutCubic are kept in thousandths
Permille == 1000
\* Node's TIMEOUT_MAX is 2^31-1 ms; a documentTtlMs above it is above this
\* many whole minutes (35791 * 60000 <= 2^31-1 < 35792 * 60000).
TimeoutMaxMinutes == 35791

VARIABLES
  env,                \* process.env: UPLOAD_LIMIT_MB, DOCUMENT_TTL_MINUTES
  uploadLimitMb,      \* line 16
  documentTtlMinutes, \* lines 17-18
  clientDist,         \* fs.existsSync(clientDist) when the routes are registered
  documents,          \* the Map: id -> entry
  disk,               \* uploadDir: path -> [bytes, size]
  timers,             \* setTimeout handles: handle -> [id, path, deadline, state, firedAt]
  unlinks,            \* unlink promises nobody awaits that have not settled
  inflight,           \* the requests a handler has yet to answer (a bag)
  response,           \* the HTTP response the last step sent, if it sent one
  now,                \* Date.now(), in minutes
  nextId,             \* the next value randomUUID() returns (fresh every call)
  issued,             \* id -> what the upload answered 201 with that id stored
  deletes,            \* id -> how many DELETEs were answered 204 (ok), 500 (failed)
  released,           \* ids whose entry a removeDocument has removed
  unlinkFailed,       \* paths whose unlink was rejected with another code than ENOENT
  unlinkStarted,      \* id -> how many unlinks of its file were started
  extDeleted,         \* paths removed from uploadDir by something else than the server
  evictionLog,        \* how the unlinks the timers started settled, and what their .catch did
  client,             \* the viewer app in one browser tab (App.tsx)
  flipbook,           \* the Flipbook component App renders (Flipbook.tsx)
  script              \* one run of client/scripts/fetch-cmaps.mjs, and client/public

vars == <<env, uploadLimitMb, documentTtlMinutes, clientDist, documents, disk, timers, unlinks,
          inflight, response, now, nextId, issued, deletes, released, unlinkFailed,
          unlinkStarted, extDeleted, evictionLog, client, flipbook, script>>

\* The server's part of the state.
serverVars == <<env, uploadLimitMb, documentTtlMinutes, clientDist, documents, disk, timers,
                unlinks, inflight, response, now, nextId, issued, deletes, released,
                unlinkFailed, unlinkStarted, extDeleted, evictionLog>>

\* What no handler of the server reads or writes.
outside == <<client, flipbook, script>>

\* The configuration, fixed when the module is loaded.
config == <<env, uploadLimitMb, documentTtlMinutes, clientDist>>

\* ----------------------------------------------------------- configuration
\* An environment variable: unset, or a string that Number() reads as a
\* finite number, as NaN or as an infinity.  A finite number is n whole units, plus, when
\* `frac`, a fraction of a unit that is less than a millisecond of a minute
\* (DOCUMENT_TTL_MINUTES=0.00001 is EnvFrac(0)).
EnvUnset == [kind |-> "unset", n |-> 0, frac |-> FALSE]
EnvNum(n) == [kind |-> "num", n |-> n, frac |-> FALSE]
EnvFrac(n) == [kind |-> "num", n |-> n, frac |-> TRUE]
EnvNaN == [kind |-> "nan", n |-> 0, frac |-> FALSE]
EnvInf == [kind |-> "inf", n |-> 0, frac |-> FALSE]

\* Number(process.env.X ?? dflt)
NumberOrDefault(value, dflt) ==
  IF value.kind = "unset" THEN EnvNum(dflt) ELSE value

\* v > 0, for a number
IsPositive(v) == v.kind = "num" /\ (v.n > 0 \/ (v.n = 0 /\ v.frac))

\* The test with >= in the place of >.
NonNegativeOr(v, dflt) ==
  IF v.kind = "num" /\ v.n >= 0 THEN v ELSE EnvNum(dflt)

\* Number.isFinite(v) && v > 0 ? v : dflt
PositiveOr(v, dflt) ==
  IF v.kind = "num" /\ IsPositive(v) THEN v ELSE EnvNum(dflt)

\* documentTtlMinutes * 60 * 1000, line 21: the fraction of a minute that
\* `frac` stands for stays below one millisecond.
documentTtlMs == [documentTtlMinutes EXCEPT !.n = @ * MsPerMinute]

\* Sizes are whole bytes: the fraction of the limit changes no comparison.
uploadLimitBytes == uploadLimitMb.n * BytesPerMb

\* The environments the server is started in.
UploadLimitEnvs == {EnvUnset}
TtlEnvs == {EnvNum(1)}
\* ... and with a TTL of more milliseconds than a timer takes, of less than
\* one millisecond, or unreadable.
AnyTtlEnvs == {EnvNum(1), EnvNum(TimeoutMaxMinutes + 1), EnvFrac(0), EnvNaN}
\* ... and with either variable unset, not a number, infinite, zero, negative
\* or positive.
ConfigLimitEnvs == {EnvUnset, EnvNaN, EnvInf, EnvNum(0), EnvNum(-1), EnvNum(1)}
ConfigTtlEnvs == {EnvUnset, EnvNaN, EnvInf, EnvNum(0), EnvNum(-1), EnvNum(1), EnvFrac(0)}

\* The delay setTimeout(cb, documentTtlMs) arms, in minutes: Node replaces a
\* delay above TIMEOUT_MAX, or below 1 ms, by 1 ms.
TimerDelay(ttl) ==
  IF ttl.n > TimeoutMaxMinutes THEN 0 ELSE ttl.n

\* new Date(t + documentTtlMs): a Date holds whole milliseconds, the fraction
\* of the sum is cut off.
DateOf(t, ttl) == t + ttl.n

\* ------------------------------------------------------------------ values
PdfMime == "application/pdf"
MimeTypes == {PdfMime, "text/plain"}
\* The bytes of the n-th file a client sends: opaque, and no two alike.
BytesOf(n) == <<"pdf", n>>
NoEntry == [path |-> 0, originalName |-> "", size |-> 0, mimeType |-> "",
            expiresAt |-> 0, timeout |-> 0]

\* The ids a request names: one that randomUUID() has returned, or 0, which
\* it never returns.
Ids == 0 .. (nextId - 1)

Has(f, k) == k \in DOMAIN f
Without(f, k) == [x \in DOMAIN f \ {k} |-> f[x]]
With(f, k, v) == [x \in DOMAIN f \cup {k} |-> IF x = k THEN v ELSE f[x]]
\* A counter that stops at 2: all that is asked of it is 0, 1 or more.
Bump(n) == IF n < 2 THEN n + 1 ELSE n

\* What holds of an id when a request that names it arrives.
Pre(id) ==
  [live |-> Has(documents, id), file |-> Has(disk, id), issued |-> Has(issued, id),
   expired |-> \E h \in DOMAIN timers : timers[h].id = id /\ timers[h].state = "fired",
   released |-> id \in released, evicting |-> unlinkStarted[id] >= 1]
NoPre == [live |-> FALSE, file |-> FALSE, issued |-> FALSE, expired |-> FALSE,
          released |-> FALSE, evicting |-> FALSE]

NoResponse ==
  [method |-> "", id |-> 0, status |-> 0, handler |-> "", body |-> <<>>, ctype |-> "",
   clen |-> 0, err |-> "", ret |-> "", pre |-> NoPre, entry |-> NoEntry,
   live |-> FALSE, timer |-> FALSE, removed |-> FALSE, expiresAt |-> 0]

\* The response to request r (an in-flight record, or one made on arrival):
\* what the client gets, and what the registry (docs) and the timers (tms)
\* hold of its id as the handler ends.
Answer(r, status, handler, body, err, docs, tms) ==
  [NoResponse EXCEPT
     !.method = r.method, !.id = r.id, !.pre = r.pre, !.entry = r.entry,
     !.status = status, !.handler = handler, !.body = body, !.err = err,
     !.live = Has(docs, r.id),
     !.timer = \E h \in DOMAIN tms : tms[h].id = r.id /\ tms[h].state = "pending",
     !.removed = Has(documents, r.id) /\ ~Has(docs, r.id)]

Request(method, id, pc, entry) ==
  [method |-> method, id |-> id, pc |-> pc, entry |-> entry, pre |-> Pre(id)]

\* The viewer as App mounts (lines 109-116): 0 stands for null and for '',
\* NoPages for [].  `pc` is the await handleFileChange stands at; received,
\* released (the ids a DELETE was issued for), file, bytes, serverFailed,
\* localFailed and ended (the last step ended a handleFileChange) are history.
NoPages == [file |-> 0, from |-> "none"]
NewClient ==
  [open |-> TRUE, mounted |-> TRUE, pc |-> "idle",
   pages |-> NoPages, loading |-> FALSE, error |-> FALSE, fileName |-> 0,
   documentId |-> 0, serverExpiry |-> 0,
   newDocumentId |-> 0, newServerExpiry |-> 0, file |-> 0, bytes |-> "none",
   received |-> {}, released |-> {}, selections |-> 0,
   serverFailed |-> FALSE, localFailed |-> FALSE, ended |-> FALSE]

\* The Flipbook: `mounted` once App renders it (App.tsx 316-317) with
\* pages.length = len; currentIndex, animation and progress as of the last
\* render, which is what the handlers and the tick closed over; `pending`,
\* the state updates React has queued for the next render; `frame`, the
\* requestAnimationFrame callback that is due.  `last` (what the last step
\* was) and `refused` (a request was turned down during this turn) are
\* history.
NoAnimation == [direction |-> "none", targetIndex |-> 0]
NoUpdate == [set |-> FALSE, value |-> 0]
NoPending == [currentIndex |-> NoUpdate,
              animation |-> [set |-> FALSE, value |-> NoAnimation],
              progress |-> NoUpdate]
NoFrame == [scheduled |-> FALSE, targetIndex |-> 0, elapsed |-> 0]
NoFlipbook ==
  [mounted |-> FALSE, len |-> 0, currentIndex |-> 0, animation |-> NoAnimation,
   progress |-> 0, pending |-> NoPending, frame |-> NoFrame, last |-> "", refused |-> FALSE]

\* A run of fetch-cmaps.mjs.  `pc` is the await the script stands at;
\* redirectCount the argument of the downloadStream call that is running;
\* download what became of the promise of the first downloadStream call;
\* status the statusCode of the last response; destination and temp what
\* public/cmaps and public/.cmaps-tmp hold; exitCode what the process ends
\* with.  requests (https.get calls), found (public/cmaps as the run found
\* it), archive (what the extraction put into temp) and failedAt are history.
NotRun ==
  [pc |-> "notRun", redirectCount |-> 0, requests |-> 0, download |-> "none",
   error |-> "", status |-> 0, destination |-> "none", temp |-> "none",
   found |-> "none", archive |-> "none", failedAt |-> "", exitCode |-> 0]

\* The state once the module is loaded, in an environment of limitEnvs and ttlEnvs.
Start(limitEnvs, ttlEnvs) ==
  /\ env \in [UPLOAD_LIMIT_MB : limitEnvs, DOCUMENT_TTL_MINUTES : ttlEnvs]
  /\ uploadLimitMb =
       PositiveOr(NumberOrDefault(env.UPLOAD_LIMIT_MB, DefaultUploadLimitMb),
                  DefaultUploadLimitMb)
  /\ documentTtlMinutes =
       PositiveOr(NumberOrDefault(env.DOCUMENT_TTL_MINUTES, DefaultTtlMinutes),
                  DefaultTtlMinutes)
  /\ clientDist \in BOOLEAN
  /\ documents = <<>>
  /\ disk = <<>>
  /\ timers = <<>>
  /\ unlinks = {}
  /\ inflight = EmptyBag
  /\ response = NoResponse
  /\ now = 0
  /\ nextId = 1
  /\ issued = <<>>
  /\ deletes = [id \in 0 .. MaxRegistrations |-> [ok |-> 0, failed |-> 0]]
  /\ released = {}
  /\ unlinkFailed = {}
  /\ unlinkStarted = [id \in 0 .. MaxRegistrations |-> 0]
  /\ extDeleted = {}
  /\ evictionLog = {}
  /\ client = NewClient
  /\ flipbook = NoFlipbook
  /\ script = NotRun

Init == Start(UploadLimitEnvs, TtlEnvs)

TtlInit == Start(UploadLimitEnvs, AnyTtlEnvs)

ConfigInit == Start(ConfigLimitEnvs, ConfigTtlEnvs)

\* ------------------------------------------------------------ the registry
\* The handle the next setTimeout returns.
NewHandle == Cardinality(DOMAIN timers) + 1

\* registerDocument: the timer it arms ...
registerTimer(id, file) ==
  [id |-> id, path |-> file.path,
   deadline |-> now + TimerDelay(documentTtlMinutes), state |-> "pending", firedAt |-> 0]

\* ... the expiry it returns ...
registerExpiresAt == DateOf(now, documentTtlMinutes)

\* ... and the entry it stores.
registerEntry(file) ==
  [path |-> file.path, originalName |-> file.originalname, size |-> file.size,
   mimeType |-> file.mimetype, expiresAt |-> registerExpiresAt, timeout |-> NewHandle]

\* documents.get(id)
Lookup(id) == IF Has(documents, id) THEN documents[id] ELSE NoEntry

\* clearTimeout(h): a handle that fired or was cleared stays as it is.
clearTimeout(h) ==
  IF Has(timers, h) /\ timers[h].state = "pending"
  THEN [timers EXCEPT ![h].state = "cleared"]
  ELSE timers

\* What the catch of a rejected unlink or sendFile looks at: error.code.
IsEnoent(code) == code = "ENOENT"

\* unlink(path) settling with `fault` (a rejection with another code than
\* ENOENT, which the file system raises only for a file that is there).
UnlinkCode(path, fault) ==
  IF ~Has(disk, path) THEN "ENOENT" ELSE IF fault THEN "EPERM" ELSE "ok"

UnlinkDisk(path, fault) ==
  IF UnlinkCode(path, fault) = "ok" THEN Without(disk, path) ELSE disk

UnlinkFailures(path, fault) ==
  IF UnlinkCode(path, fault) = "EPERM" THEN unlinkFailed \cup {path} ELSE unlinkFailed

\* ------------------------------------------------------------------ upload
Names == {"book.pdf"}
SmallSize == 10
Sizes == {SmallSize, uploadLimitBytes + 1}
NoFile == [path |-> 0, originalname |-> "", size |-> 0, mimetype |-> ""]

\* fileFilter, lines 45-51
fileFilterAccepts(mime) == mime = PdfMime

\* upload.single('file') on a multipart body with no file part ("none"), a
\* file in another field ("other") or a file in the field `file`: the error
\* multer passes on, "" when it calls the handler.
MulterError(part, mime, size, write) ==
  CASE part = "none" -> ""
    [] part = "other" -> "LIMIT_UNEXPECTED_FILE"
    [] ~fileFilterAccepts(mime) -> "Only PDF files are supported."
    [] size > uploadLimitBytes -> "LIMIT_FILE_SIZE"
    [] write # "ok" -> "EIO"
    [] OTHER -> ""

\* The filename callback (lines 36-42) runs, and takes a fresh id, for a
\* file that passed the filter.
MulterStores(part, mime) == part = "file" /\ fileFilterAccepts(mime)

\* uploadDir after multer: a stored file stays; a file that exceeded
\* limits.fileSize is removed by multer; after a failed write multer removes
\* nothing, and what the stream wrote before the failure ("partial") stays.
MulterDisk(id, part, mime, size, write, bytes) ==
  IF ~MulterStores(part, mime) \/ size > uploadLimitBytes THEN disk
  ELSE IF write = "ok" THEN With(disk, id, [bytes |-> bytes, size |-> size])
  ELSE IF write = "partial" THEN With(disk, id, [bytes |-> <<"partial">>, size |-> 0])
  ELSE disk

\* The error-handling middleware, lines 188-201: the status it answers, who
\* answers (next(err) hands the error to Express's default handler) and the
\* body: the JSON {error: message}, or the default handler's HTML page (with
\* the stack of the error unless NODE_ENV is production).
ErrorMiddleware(err) ==
  IF err \in {"LIMIT_FILE_SIZE", "LIMIT_UNEXPECTED_FILE"}
  THEN [status |-> 400, handler |-> "errmw", body |-> <<"error">>]
  ELSE IF err = "Only PDF files are supported."
  THEN [status |-> 400, handler |-> "errmw", body |-> <<"error">>]
  ELSE [status |-> 500, handler |-> "default", body |-> <<"html">>]

\* The multipart bodies a client sends: no file part, a file in another
\* field, and a file in the field `file` of either type and size, which the
\* disk takes ("ok") or fails to take, before or after a part of it is written.
UploadInputs ==
  {[part |-> "none", mime |-> PdfMime, size |-> SmallSize, write |-> "ok"],
   [part |-> "other", mime |-> PdfMime, size |-> SmallSize, write |-> "ok"]}
  \cup [part : {"file"}, mime : MimeTypes \ {PdfMime}, size : {SmallSize}, write : {"ok"}]
  \cup [part : {"file"}, mime : {PdfMime}, size : Sizes, write : {"ok", "failed", "partial"}]

\* A handler that takes a new id whatever the filename callback chose.
uploadIdRegenerates(generated) == nextId + 1

\* const id = req.generatedDocumentId ?? randomUUID(), line 119: 0 stands for
\* undefined, nextId for what randomUUID() would return now.
uploadId(generated) == IF generated # 0 THEN generated ELSE nextId

\* POST /api/upload: multer, then the handler (lines 109-128) or the error
\* middleware, when randomUUID() returns id, a value it never returned
\* (`fresh`) or one it returned before.  The path uploadDir/<id><ext> is
\* modelled by the id; the filename callback (lines 36-42), which multer calls
\* for every file it stores, leaves that id in req.generatedDocumentId.  At
\* most `max` fresh ids are taken.
UploadWith(id, fresh, max) ==
  \E in \in UploadInputs, name \in Names :
    LET part == in.part
        mime == in.mime
        size == in.size
        write == in.write
        err == MulterError(part, mime, size, write)
        stores == MulterStores(part, mime)
        bytes == IF fresh THEN BytesOf(id) ELSE BytesOf(MaxUploads + NewHandle)
        file == IF part = "file" /\ err = ""
                THEN [path |-> id, originalname |-> name, size |-> size, mimetype |-> mime]
                ELSE NoFile
        generated == IF stores THEN id ELSE 0
        docId == uploadId(generated)
        req == [method |-> "POST", id |-> IF stores THEN id ELSE 0,
                pre |-> IF stores THEN Pre(id) ELSE NoPre,
                entry |-> IF stores THEN Lookup(id) ELSE NoEntry]
    IN /\ (stores /\ fresh) => nextId <= max
       /\ nextId' = IF stores /\ fresh THEN nextId + 1 ELSE nextId
       /\ disk' = MulterDisk(id, part, mime, size, write, bytes)
       /\ IF err # ""
          THEN /\ response' = Answer(req, ErrorMiddleware(err).status,
                                     ErrorMiddleware(err).handler,
                                     ErrorMiddleware(err).body, err,
                                     documents, timers)
               /\ UNCHANGED <<documents, timers, unlinks, issued, unlinkStarted>>
          ELSE IF file = NoFile
          THEN \* lines 110-112
               /\ response' = Answer(req, 400, "upload", <<"error">>, "No file uploaded",
                                     documents, timers)
               /\ UNCHANGED <<documents, timers, unlinks, issued, unlinkStarted>>
          ELSE IF file.mimetype # PdfMime
          THEN \* lines 114-117
               /\ unlinks' = unlinks \cup {[id |-> id, path |-> file.path, by |-> "upload"]}
               /\ unlinkStarted' = [unlinkStarted EXCEPT ![id] = Bump(@)]
               /\ response' = Answer(req, 400, "upload", <<"error">>,
                                     "Only PDF files are supported.", documents, timers)
               /\ UNCHANGED <<documents, timers, issued>>
          ELSE \* lines 119-127
               /\ timers' = With(timers, NewHandle, registerTimer(docId, file))
               /\ documents' = With(documents, docId, registerEntry(file))
               /\ issued' = With(issued, docId, [bytes |-> bytes, size |-> file.size,
                                              mime |-> file.mimetype,
                                              createdAt |-> now,
                                              expiresAt |-> registerExpiresAt])
               /\ response' = [Answer(req, 201, "upload", <<"metadata">>, "",
                                      documents', timers')
                                 EXCEPT !.expiresAt = registerExpiresAt]
               /\ UNCHANGED <<unlinks, unlinkStarted>>
       /\ UNCHANGED <<config, outside, evictionLog, inflight, now, deletes, released, unlinkFailed, extDeleted>>

\* randomUUID() returns a value it never returned: all but certain.
Upload == UploadWith(nextId, TRUE, MaxUploads)

\* The same upload, as often as the registry needs to hold several documents.
UploadMore == UploadWith(nextId, TRUE, MaxRegistrations)

\* randomUUID() returns the id of an entry of the registry: the case
\* registerDocument has to be defensive about.
UploadCollides ==
  /\ Cardinality(DOMAIN timers) < MaxUploads + MaxCollisions
  /\ \E id \in DOMAIN documents : UploadWith(id, FALSE, MaxUploads)

\* ------------------------------------------------------------ the eviction
\* The callback without its documents.delete(id).
timeoutCallbackKeepsEntry(id) == documents

\* The timeout callback, lines 56-63, up to the unlink it starts: the
\* registry it leaves ...
timeoutCallbackRegistry(id) == Without(documents, id)

\* ... and the step.
TimerFire(h) ==
  /\ timers[h].state = "pending"
  /\ now >= timers[h].deadline
  /\ timers' = [timers EXCEPT ![h].state = "fired", ![h].firedAt = now]
  /\ documents' = timeoutCallbackRegistry(timers[h].id)
  /\ unlinks' = unlinks \cup {[id |-> timers[h].id, path |-> timers[h].path, by |-> "timer"]}
  /\ unlinkStarted' = [unlinkStarted EXCEPT ![timers[h].id] = Bump(@)]
  /\ response' = NoResponse
  /\ UNCHANGED <<config, outside, evictionLog, disk, inflight, now, nextId, issued, deletes, released,
                 unlinkFailed, extDeleted>>

\* A .catch that logs the rejection and throws it again.
unlinkCatchRethrows(code) ==
  [logged |-> code # "ok" /\ ~IsEnoent(code), thrown |-> code # "ok" /\ ~IsEnoent(code)]

\* unlink(file.path).catch(...), lines 58-62: whether console.error was
\* called, and whether the promise the .catch returns is rejected (nothing
\* handles it).  The handler runs only for a rejected unlink and returns
\* normally on either branch.
unlinkCatch(code) ==
  [logged |-> code # "ok" /\ ~IsEnoent(code), thrown |-> FALSE]

\* An unlink whose result nobody awaits (the timer's, line 58; the handler's,
\* line 115) settles; the .catch logs it or drops it.
UnlinkSettles(u) ==
  /\ u \in unlinks
  /\ \E fault \in BOOLEAN :
       /\ fault => Has(disk, u.path)
       /\ disk' = UnlinkDisk(u.path, fault)
       /\ unlinkFailed' = UnlinkFailures(u.path, fault)
       /\ evictionLog' =
            IF u.by = "timer"
            THEN evictionLog \cup {[id |-> u.id, code |-> UnlinkCode(u.path, fault),
                                    catch |-> unlinkCatch(UnlinkCode(u.path, fault))]}
            ELSE evictionLog
  /\ unlinks' = unlinks \ {u}
  /\ response' = NoResponse
  /\ UNCHANGED <<config, outside, documents, timers, inflight, now, nextId, issued, deletes,
                 released, unlinkStarted, extDeleted>>

\* ------------------------------------------------------------- removeDocument
\* removeDocument with its documents.delete(id) put off until after the await.
removeDocumentDeletesLate(id) == documents

\* removeDocument up to its await: the registry and the timers it leaves.
removeDocumentRegistry(id) == Without(documents, id)

\* removeDocument without its clearTimeout(entry.timeout).
removeDocumentLeavesTimer(entry) == timers

removeDocumentTimers(entry) == clearTimeout(entry.timeout)

\* removeDocument after its await: its result for the code the unlink settled with.
removeDocumentResult(code) ==
  IF code = "ok" \/ IsEnoent(code) THEN "true" ELSE "throw"

\* app.delete('/api/documents/:id'): the status for removeDocument's result.
DeleteStatus(ret) ==
  IF ret = "throw" THEN 500 ELSE IF ret = "false" THEN 404 ELSE 204

DeleteCount(id, status) ==
  [deletes EXCEPT ![id].ok = IF status = 204 THEN Bump(@) ELSE @,
                  ![id].failed = IF status = 500 THEN Bump(@) ELSE @]

\* DELETE /api/documents/:id arrives: the handler runs removeDocument to its await.
DeleteArrives(id) ==
  /\ LET r == Request("DELETE", id, "unlink", Lookup(id))
     IN IF r.entry = NoEntry
        THEN /\ response' = [Answer(r, DeleteStatus("false"), "delete", <<"error">>, "",
                                    documents, timers) EXCEPT !.ret = "false"]
             /\ UNCHANGED <<documents, timers, released, inflight, unlinkStarted>>
        ELSE /\ BagCardinality(inflight) < MaxInFlight
             /\ timers' = removeDocumentTimers(r.entry)
             /\ documents' = removeDocumentRegistry(id)
             /\ released' = released \cup {id}
             /\ unlinkStarted' = [unlinkStarted EXCEPT ![id] = Bump(@)]
             /\ inflight' = inflight (+) SetToBag({r})
             /\ response' = NoResponse
  /\ UNCHANGED <<config, outside, evictionLog, disk, unlinks, now, nextId, issued, deletes, unlinkFailed,
                 extDeleted>>

\* The awaited unlink settles: removeDocument returns or throws, the handler answers.
DeleteUnlink(r) ==
  /\ r.method = "DELETE"
  /\ \E fault \in BOOLEAN :
       LET path == r.entry.path
           code == UnlinkCode(path, fault)
           ret == removeDocumentResult(code)
       IN /\ fault => Has(disk, path)
          /\ disk' = UnlinkDisk(path, fault)
          /\ unlinkFailed' = UnlinkFailures(path, fault)
          /\ deletes' = DeleteCount(r.id, DeleteStatus(ret))
          /\ response' = [Answer(r, DeleteStatus(ret), "delete",
                                 IF ret = "true" THEN <<>> ELSE <<"error">>,
                                 IF code = "ok" THEN "" ELSE code, documents, timers)
                            EXCEPT !.ret = ret]
  /\ inflight' = inflight (-) SetToBag({r})
  /\ UNCHANGED <<config, outside, evictionLog, documents, timers, unlinks, now, nextId, issued, released,
                 unlinkStarted, extDeleted>>

\* ------------------------------------------------------------------ retrieval
\* The route that answers GET /api/documents/:id.  Express tries the routes
\* in the order of their registration: express.static and app.get('*')
\* (lines 132-136) come before app.get('/api/documents/:id') (line 141) when
\* the client build exists; no file of the build is named api/documents/<id>.
GetRoute == IF clientDist THEN "spa" ELSE "documents"

\* The callback without its documents.delete(req.params.id).
sendFileCallbackNoHeal(id, code) == documents

\* The callback of res.sendFile, lines 155-172, called with an error of `code`:
\* the registry it leaves ...
sendFileCallbackRegistry(id, code) ==
  IF IsEnoent(code) THEN Without(documents, id) ELSE documents

\* ... and the status the client gets (the one already sent, once headers are).
sendFileCallbackStatus(code, headersSent, sent) ==
  IF headersSent THEN sent ELSE IF IsEnoent(code) THEN 404 ELSE 500

\* A retrieval that re-arms the timer of the document it sends.
sendFileSlidesExpiry(r) ==
  IF Has(timers, r.entry.timeout) /\ timers[r.entry.timeout].state = "pending"
  THEN [timers EXCEPT ![r.entry.timeout].deadline = now + TimerDelay(documentTtlMinutes)]
  ELSE timers

\* The timers after the retrieval handler, lines 141-173: it reads
\* entry.path, entry.mimeType, entry.size and entry.originalName, and leaves
\* entry.timeout and entry.expiresAt alone.
sendFileTimers(r) == timers

\* GET /api/documents/:id arrives.
GetArrives(id) ==
  /\ LET r == Request("GET", id, "sendFile", Lookup(id))
     IN IF GetRoute = "spa"
        THEN /\ response' = [Answer([r EXCEPT !.entry = NoEntry], 200, "spa",
                                    <<"index.html">>, "", documents, timers)
                               EXCEPT !.ctype = "text/html"]
             /\ UNCHANGED inflight
        ELSE IF r.entry = NoEntry
        THEN /\ response' = Answer(r, 404, "documents", <<"error">>, "", documents, timers)
             /\ UNCHANGED inflight
        ELSE /\ BagCardinality(inflight) < MaxInFlight
             /\ inflight' = inflight (+) SetToBag({r})
             /\ response' = NoResponse
  /\ UNCHANGED <<config, outside, evictionLog, documents, disk, timers, unlinks, now, nextId, issued, deletes,
                 released, unlinkFailed, unlinkStarted, extDeleted>>

\* res.sendFile stats, opens and streams the file.  A file that is missing
\* at the stat or at the open is ENOENT before any header is sent; `fault` is
\* another failure of the file system: "EACCES" at the stat, "EIO" in a read
\* after the headers and a part of the body went out.
SendFileCode(path, fault) == IF ~Has(disk, path) THEN "ENOENT" ELSE fault

GetSendFile(r) ==
  /\ r.method = "GET"
  /\ \E fault \in {"ok", "EACCES", "EIO"} :
       LET path == r.entry.path
           code == SendFileCode(path, fault)
           docs == IF code = "ok" THEN documents ELSE sendFileCallbackRegistry(r.id, code)
           sent == code = "EIO"
           status == IF code = "ok" THEN 200 ELSE sendFileCallbackStatus(code, sent, 200)
           body == CASE code = "ok" -> disk[path].bytes
                     [] code = "EIO" -> <<"truncated">>
                     [] OTHER -> <<"error">>
           answer == Answer(r, status, "documents", body,
                            IF code = "ok" THEN "" ELSE code, docs, sendFileTimers(r))
       IN /\ documents' = docs
          /\ timers' = sendFileTimers(r)
          /\ response' = IF code \in {"ok", "EIO"}
                         THEN [answer EXCEPT !.ctype = r.entry.mimeType,
                                             !.clen = disk[path].size]
                         ELSE answer
  /\ inflight' = inflight (-) SetToBag({r})
  /\ UNCHANGED <<config, outside, evictionLog, disk, unlinks, now, nextId, issued, deletes, released,
                 unlinkFailed, unlinkStarted, extDeleted>>

\* ------------------------------------------------------------ the environment
\* Something else than the server removes a document's file from uploadDir.
ExternalDelete(p) ==
  /\ Has(disk, p)
  /\ Has(issued, p)
  /\ disk' = Without(disk, p)
  /\ extDeleted' = extDeleted \cup {p}
  /\ response' = NoResponse
  /\ UNCHANGED <<config, outside, evictionLog, documents, timers, unlinks, inflight, now, nextId, issued,
                 deletes, released, unlinkFailed, unlinkStarted>>

Tick ==
  /\ now < MaxTime
  /\ now' = now + 1
  /\ response' = NoResponse
  /\ UNCHANGED <<config, outside, evictionLog, documents, disk, timers, unlinks, inflight, nextId, issued,
                 deletes, released, unlinkFailed, unlinkStarted, extDeleted>>

\* ------------------------------------------------------------------ the viewer
\* App.tsx.  The server's replies are taken as they can come: an upload
\* answered 201 with a fresh id and an expiry, or failing; a download
\* answered 200, or failing; a DELETE answered anyhow.

\* releaseServerDocument(id), lines 128-138, up to its await: a DELETE goes
\* out unless id is null.  (What the DELETE is answered changes nothing.)
releaseServerDocument(c, id) ==
  IF id = 0 THEN c ELSE [c EXCEPT !.released = @ \cup {id}]

\* setDocumentId(id); setServerExpiry(expiry).  React drops the update of an
\* unmounted component; when documentId changes it runs the cleanup of the
\* effect of lines 215-219, which releases the documentId of the last render.
setDocument(c, id, expiry) ==
  IF ~c.mounted THEN c
  ELSE [releaseServerDocument(c, IF c.documentId # id THEN c.documentId ELSE 0)
          EXCEPT !.documentId = id, !.serverExpiry = expiry]

\* The inner catch without its two assignments.
innerCatchKeepsLocals(c) == c

\* Lines 169-170 of the inner catch.
innerCatchLocals(c) == [c EXCEPT !.newDocumentId = 0, !.newServerExpiry = 0]

\* Lines 188-195: the outer catch after its release, and the finally.
handleFileChangeFails(c) ==
  LET d == IF c.mounted
           THEN [setDocument(c, 0, 0) EXCEPT !.pages = NoPages, !.error = TRUE,
                                             !.loading = FALSE]
           ELSE c
  IN [d EXCEPT !.pc = "idle", !.ended = TRUE, !.newDocumentId = 0, !.newServerExpiry = 0]

\* Lines 182-187: the outer catch up to the await of its release.
outerCatch(c) ==
  IF c.newDocumentId # 0
  THEN [releaseServerDocument(c, c.newDocumentId) EXCEPT !.pc = "releaseFailed"]
  ELSE handleFileChangeFails(c)

\* The user selects a file (the input is disabled while loading): lines
\* 140-155, up to the await of the release of the document on display.
handleFileChange ==
  /\ client.open /\ client.mounted /\ ~client.loading /\ client.pc = "idle"
  /\ client.selections < MaxSelections
  /\ client' = releaseServerDocument(
                  [client EXCEPT !.loading = TRUE, !.error = FALSE,
                                 !.selections = @ + 1, !.file = client.selections + 1,
                                 !.newDocumentId = 0, !.newServerExpiry = 0,
                                 !.bytes = "none", !.serverFailed = FALSE,
                                 !.localFailed = FALSE, !.ended = FALSE,
                                 !.pc = "release"],
                  client.documentId)
  /\ UNCHANGED <<serverVars, flipbook, script>>

\* Lines 155-162: the release settled; the upload goes out.
ReleaseSettles ==
  /\ client.open /\ client.pc = "release"
  /\ client' = [setDocument(client, 0, 0) EXCEPT !.pc = "upload", !.ended = FALSE]
  /\ UNCHANGED <<serverVars, flipbook, script>>

\* uploadThroughServer (lines 52-75) settles: lines 162-165, or the inner
\* catch, which has no id to release, up to file.arrayBuffer() (line 173).
UploadSettles ==
  /\ client.open /\ client.pc = "upload"
  /\ \E ok \in BOOLEAN :
       client' = IF ok
                 THEN LET id == Cardinality(client.received) + 1
                      IN [client EXCEPT !.received = @ \cup {id}, !.newDocumentId = id,
                                        !.newServerExpiry = id, !.pc = "fetch"]
                 ELSE [client EXCEPT !.serverFailed = TRUE, !.pc = "local"]
  /\ UNCHANGED <<serverVars, flipbook, script>>

\* fetchServerDocument (lines 77-91) settles: line 177 is next, or the inner
\* catch up to the await of its release (lines 166-168).
FetchSettles ==
  /\ client.open /\ client.pc = "fetch"
  /\ \E ok \in BOOLEAN :
       client' = IF ok
                 THEN [client EXCEPT !.bytes = "server", !.pc = "render"]
                 ELSE [releaseServerDocument(client, client.newDocumentId)
                         EXCEPT !.serverFailed = TRUE, !.pc = "releaseNew"]
  /\ UNCHANGED <<serverVars, flipbook, script>>

\* Lines 168-173: the release of the inner catch settled.
ReleaseNewSettles ==
  /\ client.open /\ client.pc = "releaseNew"
  /\ client' = [innerCatchLocals(client) EXCEPT !.pc = "local"]
  /\ UNCHANGED <<serverVars, flipbook, script>>

\* file.arrayBuffer() (line 173) settles.
LocalRead ==
  /\ client.open /\ client.pc = "local"
  /\ \E ok \in BOOLEAN :
       client' = IF ok
                 THEN [client EXCEPT !.bytes = "local", !.pc = "render"]
                 ELSE outerCatch([client EXCEPT !.localFailed = TRUE])
  /\ UNCHANGED <<serverVars, flipbook, script>>

\* renderPdfPages (lines 13-50) settles: lines 178-181 and the finally, or
\* the outer catch.
RenderSettles ==
  /\ client.open /\ client.pc = "render"
  /\ \E ok \in BOOLEAN :
       client' =
         IF ok
         THEN LET d == IF client.mounted
                       THEN [setDocument(client, client.newDocumentId,
                                         client.newServerExpiry)
                               EXCEPT !.pages = [file |-> client.file,
                                                 from |-> client.bytes],
                                      !.fileName = client.file, !.loading = FALSE]
                       ELSE client
              IN [d EXCEPT !.pc = "idle", !.ended = TRUE, !.newDocumentId = 0,
                           !.newServerExpiry = 0]
         ELSE outerCatch([client EXCEPT !.localFailed = (client.bytes = "local")])
  /\ UNCHANGED <<serverVars, flipbook, script>>

\* Lines 184-195: the release of the outer catch settled.
ReleaseFailedSettles ==
  /\ client.open /\ client.pc = "releaseFailed"
  /\ client' = handleFileChangeFails(client)
  /\ UNCHANGED <<serverVars, flipbook, script>>

\* The user presses Clear (enabled once there are pages or a file name),
\* lines 198-205.
handleClear ==
  /\ client.open /\ client.mounted
  /\ client.pages # NoPages \/ client.fileName # 0
  /\ client' = [setDocument(releaseServerDocument(client, client.documentId), 0, 0)
                  EXCEPT !.pages = NoPages, !.fileName = 0, !.error = FALSE,
                         !.ended = FALSE]
  /\ UNCHANGED <<serverVars, flipbook, script>>

\* App unmounts: React runs the cleanup of the effect, lines 215-219.
Unmount ==
  /\ client.open /\ client.mounted
  /\ client' = [releaseServerDocument(client, client.documentId)
                  EXCEPT !.mounted = FALSE, !.ended = FALSE]
  /\ UNCHANGED <<serverVars, flipbook, script>>

\* The user closes the tab: the page is discarded.  App.tsx registers no
\* listener for it, and React runs no effect cleanup for a page going away.
TabClose ==
  /\ client.open
  /\ client' = [client EXCEPT !.open = FALSE]
  /\ UNCHANGED <<serverVars, flipbook, script>>

\* ---------------------------------------------------------------- the Flipbook
\* clamp, lines 22-23
clamp(value, min, max) ==
  LET least == IF max < value THEN max ELSE value
  IN IF min > least THEN min ELSE least

\* easeOutCubic, line 25, in thousandths
easeOutCubic(value) ==
  Permille - ((Permille - value) * (Permille - value) * (Permille - value))
               \div (Permille * Permille)

\* A forward turn allowed from the last page as well.
canGoForwardPastEnd(f) == f.currentIndex < f.len /\ f.animation = NoAnimation

\* canGoForward, line 165
canGoForward(f) == f.currentIndex < f.len - 1 /\ f.animation = NoAnimation

\* A backward turn allowed during a turn as well.
canGoBackwardWhileTurning(f) == f.currentIndex > 0

\* canGoBackward, line 166
canGoBackward(f) == f.currentIndex > 0 /\ f.animation = NoAnimation

\* A handler that returns at its guard: what is remembered of it.
turnedDown(f) ==
  [f EXCEPT !.last = IF f.animation = NoAnimation THEN "ignoredAtEdge" ELSE "ignoredTurning",
            !.refused = @ \/ f.animation # NoAnimation]

\* handleForward, lines 168-174
handleForward(f) ==
  IF ~canGoForward(f) THEN turnedDown(f)
  ELSE [f EXCEPT !.pending.animation =
                    [set |-> TRUE,
                     value |-> [direction |-> "forward", targetIndex |-> f.currentIndex + 1]],
                 !.last = "request"]

\* handleBackward, lines 176-182
handleBackward(f) ==
  IF ~canGoBackward(f) THEN turnedDown(f)
  ELSE [f EXCEPT !.pending.animation =
                    [set |-> TRUE,
                     value |-> [direction |-> "backward", targetIndex |-> f.currentIndex - 1]],
                 !.last = "request"]

\* App renders a Flipbook for the document it has loaded (App.tsx 316-317):
\* the three useState of lines 28-30, then the effects of the first render,
\* of which the reset effect (lines 131-135) queues its three updates.  App
\* shows no Flipbook while it loads, so every new list of pages comes to a
\* new Flipbook.
FlipbookMount ==
  /\ ~flipbook.mounted
  /\ \E len \in 1 .. MaxPages :
       flipbook' = [NoFlipbook EXCEPT
                      !.mounted = TRUE, !.len = len, !.last = "mount",
                      !.pending = [currentIndex |-> [set |-> TRUE, value |-> 0],
                                   animation |-> [set |-> TRUE, value |-> NoAnimation],
                                   progress |-> [set |-> TRUE, value |-> 0]]]
  /\ UNCHANGED <<serverVars, client, script>>

\* App stops rendering the Flipbook (loading, or no pages): its state goes,
\* and the cleanup of the animation effect (lines 158-162) cancels the frame.
FlipbookUnmount ==
  /\ flipbook.mounted
  /\ flipbook' = [NoFlipbook EXCEPT !.last = "unmount"]
  /\ UNCHANGED <<serverVars, client, script>>

\* A click: a disabled button (lines 327, 331) takes none.
ClickNext ==
  /\ flipbook.mounted
  /\ canGoForward(flipbook)
  /\ flipbook' = handleForward(flipbook)
  /\ UNCHANGED <<serverVars, client, script>>

ClickPrevious ==
  /\ flipbook.mounted
  /\ canGoBackward(flipbook)
  /\ flipbook' = handleBackward(flipbook)
  /\ UNCHANGED <<serverVars, client, script>>

\* onKeyDown, lines 185-192
onKeyDown(key) ==
  /\ flipbook.mounted
  /\ flipbook' = IF key = "ArrowRight" THEN handleForward(flipbook)
                 ELSE IF key = "ArrowLeft" THEN handleBackward(flipbook)
                 ELSE [flipbook EXCEPT !.last = "key"]
  /\ UNCHANGED <<serverVars, client, script>>

\* tick, lines 143-155, called by the browser for the frame that is due.
tick ==
  /\ flipbook.mounted
  /\ flipbook.frame.scheduled
  /\ LET elapsed == flipbook.frame.elapsed
         next == clamp((elapsed * Permille) \div TURN_DURATION, 0, Permille)
     IN flipbook' =
          IF next < Permille
          THEN [flipbook EXCEPT
                  !.pending.progress = [set |-> TRUE, value |-> easeOutCubic(next)],
                  !.frame.elapsed = elapsed + FrameMs,
                  !.last = "tick"]
          ELSE [flipbook EXCEPT
                  !.pending.currentIndex = [set |-> TRUE, value |-> flipbook.frame.targetIndex],
                  !.pending.animation = [set |-> TRUE, value |-> NoAnimation],
                  !.pending.progress = [set |-> TRUE, value |-> 0],
                  !.frame = NoFrame,
                  !.last = "tick"]
  /\ UNCHANGED <<serverVars, client, script>>

\* React renders with the queued updates and runs the effects whose
\* dependencies changed: the animation effect (lines 137-163) when
\* `animation` is another object than before, its cleanup first.
FlipbookRender ==
  /\ flipbook.mounted
  /\ flipbook.pending # NoPending
  /\ LET p == flipbook.pending
         animation == IF p.animation.set THEN p.animation.value ELSE flipbook.animation
         changed == p.animation.set
                    /\ ~(p.animation.value = NoAnimation /\ flipbook.animation = NoAnimation)
     IN flipbook' =
          [flipbook EXCEPT
             !.currentIndex = IF p.currentIndex.set THEN p.currentIndex.value ELSE @,
             !.animation = animation,
             !.progress = IF p.progress.set THEN p.progress.value ELSE @,
             !.pending = NoPending,
             !.frame = IF ~changed THEN @
                       ELSE IF animation = NoAnimation THEN NoFrame
                       ELSE [scheduled |-> TRUE, targetIndex |-> animation.targetIndex,
                             elapsed |-> 0],
             !.refused = IF changed /\ animation # NoAnimation THEN FALSE ELSE @,
             !.last = IF ~changed THEN "render"
                      ELSE IF animation = NoAnimation THEN "turned" ELSE "started"]
  /\ UNCHANGED <<serverVars, client, script>>

\* ---------------------------------------------------------------- fetch-cmaps
\* What public/cmaps and public/.cmaps-tmp hold when the script is run: a
\* copy installed before or nothing, what a run that failed left or nothing.
Destinations == {"none", "installed"}
Temps == {"none", "leftover"}
\* The responses of the registry and of what it redirects to: a status, and a
\* Location header that is absent, one that new URL() takes, or one it throws on.
Statuses == {200, 302, 404}
Locations == {"none", "url", "invalid"}

\* The top-level catch, lines 117-124, reached from step `at`.
catch(sc, at) == [sc EXCEPT !.pc = "ended", !.failedAt = at, !.exitCode = 1]

\* downloadStream rejects: the await of line 79 throws, to the catch.
reject(sc, error) ==
  [catch(sc, "download") EXCEPT !.download = "rejected", !.error = error]

\* The limit, one redirect further on.
tooManyRedirectsLate(redirectCount) == redirectCount > MaxRedirects + 1

\* line 51
tooManyRedirects(redirectCount) == redirectCount > MaxRedirects

\* An access that never throws.
accessAlwaysSucceeds(temp) == TRUE

\* await access(extractedDir), line 100: public/.cmaps-tmp/cmaps is there
accessSucceeds(temp) == temp = "cmaps"

\* `npm run fetch-cmaps`: node starts the script.
RunScript ==
  /\ script.pc = "notRun"
  /\ \E d \in Destinations, t \in Temps :
       script' = [NotRun EXCEPT !.pc = "resolvePdfjsVersion", !.destination = d,
                                !.found = d, !.temp = t]
  /\ UNCHANGED <<serverVars, client, flipbook>>

\* resolvePdfjsVersion, lines 44-47 and 112: pdfjs-dist is installed, or the
\* import throws.
resolvePdfjsVersion ==
  /\ script.pc = "resolvePdfjsVersion"
  /\ \E fault \in BOOLEAN :
       script' = IF fault THEN catch(script, "resolvePdfjsVersion")
                 ELSE [script EXCEPT !.pc = "downloadStream", !.download = "pending"]
  /\ UNCHANGED <<serverVars, client, flipbook>>

\* downloadStream(url, redirectCount), lines 49-56: the check, then the request.
downloadStream ==
  /\ script.pc = "downloadStream"
  /\ script' = IF tooManyRedirects(script.redirectCount)
               THEN reject(script, "Too many redirects")
               ELSE [script EXCEPT !.pc = "get", !.requests = @ + 1]
  /\ UNCHANGED <<serverVars, client, flipbook>>

\* The response callback, lines 57-72.  new URL(location, url) throws on a
\* Location it cannot parse: the exception leaves the callback, nothing
\* settles the promise and node ends the process with code 1.
getResponse ==
  /\ script.pc = "get"
  /\ \E statusCode \in Statuses, location \in Locations :
       script' =
         IF statusCode >= 300 /\ statusCode < 400 /\ location # "none"
         THEN IF location = "invalid"
              THEN [script EXCEPT !.pc = "ended", !.status = statusCode,
                                  !.failedAt = "download", !.error = "Invalid URL",
                                  !.exitCode = 1]
              ELSE [script EXCEPT !.pc = "downloadStream", !.status = statusCode,
                                  !.redirectCount = @ + 1]
         ELSE IF statusCode # 200
         THEN [reject(script, "status") EXCEPT !.status = statusCode]
         ELSE [script EXCEPT !.pc = "rmTemp", !.status = statusCode,
                             !.download = "resolved"]
  /\ UNCHANGED <<serverVars, client, flipbook>>

\* .on('error', reject), line 73
getError ==
  /\ script.pc = "get"
  /\ script' = reject(script, "network")
  /\ UNCHANGED <<serverVars, client, flipbook>>

\* await rm(tempDir, ...), line 81
rmTemp ==
  /\ script.pc = "rmTemp"
  /\ \E fault \in BOOLEAN :
       /\ fault => script.temp # "none"
       /\ script' = IF fault THEN catch(script, "rmTemp")
                    ELSE [script EXCEPT !.pc = "mkdirTemp", !.temp = "none"]
  /\ UNCHANGED <<serverVars, client, flipbook>>

\* await mkdir(tempDir, ...), line 82
mkdirTemp ==
  /\ script.pc = "mkdirTemp"
  /\ \E fault \in BOOLEAN :
       script' = IF fault THEN catch(script, "mkdirTemp")
                 ELSE [script EXCEPT !.pc = "extract", !.temp = "empty"]
  /\ UNCHANGED <<serverVars, client, flipbook>>

\* await pipeline(response, tar.x(...)), lines 84-94: the body arrives and is
\* unpacked, with a cmaps directory in it or without; or the stream breaks,
\* with part of it unpacked.
extract ==
  /\ script.pc = "extract"
  /\ \E result \in {"cmaps", "other", "broken"} :
       script' = IF result = "broken"
                 THEN [catch(script, "extract") EXCEPT !.temp = "partial"]
                 ELSE [script EXCEPT !.pc = "access", !.temp = result, !.archive = result]
  /\ UNCHANGED <<serverVars, client, flipbook>>

\* moveIntoPlace, lines 98-103
access ==
  /\ script.pc = "access"
  /\ script' = IF accessSucceeds(script.temp)
               THEN [script EXCEPT !.pc = "rmDestination"]
               ELSE catch(script, "access")
  /\ UNCHANGED <<serverVars, client, flipbook>>

\* await rm(destinationDir, ...), line 105
rmDestination ==
  /\ script.pc = "rmDestination"
  /\ \E fault \in BOOLEAN :
       /\ fault => script.destination # "none"
       /\ script' = IF fault
                    THEN [catch(script, "rmDestination") EXCEPT !.destination = "partial"]
                    ELSE [script EXCEPT !.pc = "rename", !.destination = "none"]
  /\ UNCHANGED <<serverVars, client, flipbook>>

\* await mkdir(path.dirname(destinationDir)) and await rename(...), lines 106-107
rename ==
  /\ script.pc = "rename"
  /\ \E fault \in BOOLEAN :
       script' = IF fault THEN catch(script, "rename")
                 ELSE [script EXCEPT !.pc = "rmTempAgain", !.destination = "new",
                                     !.temp = "empty"]
  /\ UNCHANGED <<serverVars, client, flipbook>>

\* await rm(tempDir, ...), line 108, and the end of the script
rmTempAgain ==
  /\ script.pc = "rmTempAgain"
  /\ \E fault \in BOOLEAN :
       script' = IF fault THEN catch(script, "rmTempAgain")
                 ELSE [script EXCEPT !.pc = "ended", !.temp = "none"]
  /\ UNCHANGED <<serverVars, client, flipbook>>

\* ------------------------------------------------------------------ claims
IsGet == response.method = "GET"
IsDelete == response.method = "DELETE"
IsPost == response.method = "POST"

\* An unlink of the document's file has been started and has not settled.
EvictionInProgress(id) ==
  \/ \E u \in unlinks : u.id = id
  \/ \E r \in BagToSet(inflight) : r.method = "DELETE" /\ r.id = id

\* C1: a GET for a document that was in the registry when the request
\* arrived, whose file is on disk as stored and was read without a failure of
\* the file system, is answered 200 with the bytes, the content type and the
\* size of the upload.
RoundTrip ==
  (/\ IsGet
   /\ response.pre.live
   /\ Has(disk, response.id)
   /\ disk[response.id].bytes = issued[response.id].bytes
   /\ response.err \notin {"EACCES", "EIO"})
  => /\ response.status = 200
     /\ response.body = issued[response.id].bytes
     /\ response.ctype = issued[response.id].mime
     /\ response.clen = issued[response.id].size

\* C2: once the eviction timer of a document that was never released has
\* fired, the id is not in the registry, a GET for it is answered 404, and
\* when the unlink the timer started has settled without a failure the file
\* is not on disk.
NaturalExpiry ==
  \A h \in DOMAIN timers :
    (timers[h].state = "fired" /\ timers[h].id \notin released)
    => /\ ~Has(documents, timers[h].id)
       /\ (~EvictionInProgress(timers[h].id) /\ timers[h].path \notin unlinkFailed)
            => ~Has(disk, timers[h].path)
       /\ (IsGet /\ response.id = timers[h].id /\ response.pre.expired)
            => response.status = 404

\* C3: a GET that arrives after removeDocument has removed the entry of its
\* id is answered 404, never with the document.
ReleaseThenFetch ==
  (IsGet /\ response.pre.released)
  => /\ response.status = 404
     /\ response.body # issued[response.id].bytes

NeverIssuedNotFound ==
  ((IsGet \/ IsDelete) /\ ~response.pre.issued)
  => /\ response.status = 404
     /\ ~response.removed
     /\ IsDelete => response.ret = "false"

\* C6: an upload answered with an error leaves no file under the id it took,
\* no entry and no timer.
RejectedUploadLeavesNothing ==
  (IsPost /\ response.status >= 400 /\ response.id # 0)
  => /\ ~Has(disk, response.id)
     /\ ~Has(documents, response.id)
     /\ \A h \in DOMAIN timers : timers[h].id # response.id

\* C7: GET /api/documents/:id is answered by the retrieval handler.
RouteDispatch ==
  IsGet => response.handler = "documents"

\* C8 as claimed: the file of a document is on disk iff its entry is in the
\* registry, except while an unlink of it is pending.
RegistryStorageAgreement ==
  \A id \in DOMAIN issued :
    \/ Has(disk, id) = Has(documents, id)
    \/ EvictionInProgress(id)

\* C8 as amended: a file without an entry is one whose unlink is pending or
\* was rejected with another code than ENOENT; an entry without a file is one
\* whose file was removed by something else than the server.
RegistryStorageAgreementOrFailure ==
  \A id \in DOMAIN issued :
    /\ (Has(disk, id) /\ ~Has(documents, id)) => (EvictionInProgress(id) \/ id \in unlinkFailed)
    /\ (Has(documents, id) /\ ~Has(disk, id)) => id \in extDeleted

\* The unlink of an evicted document failed: its file stays with no entry and
\* nothing pending.
OrphanAfterFailedUnlink ==
  \E id \in unlinkFailed :
    Has(disk, id) /\ ~Has(documents, id) /\ ~EvictionInProgress(id)

\* C9: a DELETE answered 500 leaves the entry and its pending timer in place.
FailedReleaseRetryable ==
  (IsDelete /\ response.status = 500) => (response.live /\ response.timer)

\* C10: a GET that found an entry whose file is missing is answered 404 and
\* leaves no entry for the id; a GET removes an entry in no other case.
SelfHeal ==
  IsGet =>
    /\ (response.entry # NoEntry /\ ~Has(disk, response.entry.path))
         => (response.status = 404 /\ ~Has(documents, response.id))
    /\ response.removed => (response.entry # NoEntry /\ ~Has(disk, response.entry.path))

\* A GET found a stale entry (the file was removed from outside), removed it
\* and answered 404.
StaleEntryHealed ==
  IsGet /\ response.removed /\ response.status = 404 /\ response.id \in extDeleted

\* C11: a GET whose read met no failure of the file system but the absence
\* of the file is answered 200 with the whole document (the bytes and the
\* size of the upload) or 404 with the error message; never a truncated 200,
\* never 500.
AbsenceWins ==
  (IsGet /\ response.err \notin {"EACCES", "EIO"})
  => \/ response.status = 404 /\ response.body = <<"error">>
     \/ /\ response.status = 200
        /\ Has(issued, response.id)
        /\ response.body = issued[response.id].bytes
        /\ response.clen = issued[response.id].size

\* C12: the unlink of a document's file is started at most once; a timer
\* never fires for an id removeDocument has removed; and a DELETE that arrives
\* after the timer of its id fired removes nothing and returns false (404).
DestroyedOnce ==
  /\ \A id \in DOMAIN unlinkStarted : unlinkStarted[id] <= 1
  /\ \A h \in DOMAIN timers :
       timers[h].state = "fired" => timers[h].id \notin released
  /\ (IsDelete /\ response.pre.expired)
       => (response.ret = "false" /\ response.status = 404 /\ ~response.removed)

\* The deadline of a timer passed after a release had cleared it, with the one
\* unlink of the release started.
ReleaseBeatsTimer ==
  \E h \in DOMAIN timers :
    /\ timers[h].state = "cleared"
    /\ now >= timers[h].deadline
    /\ timers[h].id \in released
    /\ unlinkStarted[timers[h].id] = 1

\* C13: a pending timer belongs to an entry of the registry (whatever removes
\* an entry but its own timer cancels the timer in the same step), and every
\* entry has exactly one pending timer.
NoDanglingTimers ==
  /\ \A h \in DOMAIN timers :
       timers[h].state = "pending"
       => (Has(documents, timers[h].id) /\ documents[timers[h].id].timeout = h)
  /\ \A id \in DOMAIN documents :
       Cardinality({h \in DOMAIN timers :
                      timers[h].id = id /\ timers[h].state = "pending"}) = 1

\* C14: the expiresAt of every entry is its registration time plus exactly
\* the TTL, hence later than the registration; it is the expiresAt the upload
\* answered; and it stays what it was at registration.
ExpiryFixed ==
  /\ \A id \in DOMAIN documents :
       /\ documents[id].expiresAt > issued[id].createdAt
       /\ ~documentTtlMinutes.frac
       /\ documents[id].expiresAt = issued[id].createdAt + documentTtlMinutes.n
       /\ documents[id].expiresAt = issued[id].expiresAt
  /\ (IsPost /\ response.status = 201)
       => response.expiresAt = documents[response.id].expiresAt

\* C15: an eviction timer fires no earlier than the expiresAt the upload
\* answered, and until then a GET for a document that was not released and
\* whose file is intact and read without a failure is answered with it.
TimerHonoursExpiry ==
  /\ \A h \in DOMAIN timers :
       timers[h].state = "fired" => timers[h].firedAt >= issued[timers[h].id].expiresAt
  /\ (/\ IsGet
      /\ Has(issued, response.id)
      /\ response.id \notin released
      /\ Has(disk, response.id)
      /\ now < issued[response.id].expiresAt
      /\ response.err \notin {"EACCES", "EIO"})
     => (response.status = 200 /\ response.body = issued[response.id].bytes)

\* C16: registerDocument for an id that has an entry fails (the upload is
\* not answered 201) and leaves the entry, with its timer, as it was.
DefensiveRegistration ==
  (IsPost /\ response.pre.live)
  => /\ response.status # 201
     /\ Lookup(response.id) = response.entry
     /\ \A h \in DOMAIN timers :
          (timers[h].id = response.id /\ timers[h].state = "pending")
          => h = response.entry.timeout

\* The handlers index.js defines.
OwnHandlers == {"upload", "errmw", "documents", "delete"}

\* C17: a request answered 4xx or 5xx is answered by a handler of the
\* application with the JSON {error: message}, never by the default error
\* handler; and a failed write, delete or read of the storage is answered so.
StructuredErrors ==
  /\ response.status >= 400
       => (response.handler \in OwnHandlers /\ response.body = <<"error">>)
  /\ response.err \in {"EIO", "EACCES", "EPERM"}
       => (response.status >= 400 /\ response.body = <<"error">>)

\* C20: once the unlink of a document's file has been started the entry is
\* out of the registry, and a GET that arrives after that finds no entry: it
\* never gets to sendFile, and is never answered with the document.
EntryBeforeFile ==
  /\ \A id \in DOMAIN unlinkStarted : unlinkStarted[id] >= 1 => ~Has(documents, id)
  /\ \A r \in BagToSet(inflight) : r.method = "GET" => ~r.pre.evicting
  /\ (IsGet /\ response.pre.evicting)
       => /\ response.entry = NoEntry
          /\ Has(issued, response.id) => response.body # issued[response.id].bytes

\* A GET arrived while the unlink of its document's file was pending, and the
\* retrieval handler answered it 404 with the file still on disk.
FetchDuringUnlink ==
  /\ IsGet
  /\ response.pre.evicting
  /\ response.handler = "documents"
  /\ response.status = 404
  /\ EvictionInProgress(response.id)
  /\ Has(disk, response.id)

\* C18: every id the viewer received from /api/upload has had a DELETE
\* issued for it, unless it is the document on display or the one the
\* handleFileChange under way still holds.
ClientReleases ==
  \A id \in client.received :
    \/ id \in client.released
    \/ client.open /\ client.mounted /\ client.documentId = id
    \/ client.open /\ client.pc # "idle" /\ client.newDocumentId = id

\* C19: when handleFileChange ends, loading is false; and if the upload or
\* the download failed, documentId and serverExpiry are null and, unless the
\* local read or rendering failed, the pages are those of the selected file
\* rendered from its local bytes and no error is shown.
LocalFallback ==
  (client.ended /\ client.mounted)
  => /\ ~client.loading
     /\ client.serverFailed
          => /\ client.documentId = 0
             /\ client.serverExpiry = 0
             /\ ~client.localFailed
                  => /\ client.pages = [file |-> client.file, from |-> "local"]
                     /\ ~client.error

\* The upload succeeded, the download failed, and the viewer shows the pages
\* rendered from the local bytes, the server's copy released.
FellBackAfterDownload ==
  /\ client.ended /\ client.mounted /\ client.serverFailed
  /\ client.pages = [file |-> client.file, from |-> "local"]
  /\ client.received # {}
  /\ client.received \subseteq client.released
  /\ client.documentId = 0

\* C21: a step in which a GET is answered 200 leaves the registry and the
\* timers as they were: the same ids, the same entries (path, size, content
\* type, expiresAt, timer), the same deadlines.
ReadOnlyRetrieval ==
  [][(response'.method = "GET" /\ response'.status = 200)
       => (documents' = documents /\ timers' = timers)]_vars

\* The retrieval handler sent a document after the clock had moved on, and
\* its entry and pending timer are in place.
FetchedLate ==
  /\ IsGet
  /\ response.status = 200
  /\ response.handler = "documents"
  /\ response.err = ""
  /\ now > issued[response.id].createdAt
  /\ Lookup(response.id) = response.entry
  /\ response.timer

\* C22: once a timer has fired the entry of its document is gone, however
\* the unlink it started settles; the .catch of that unlink is silent for
\* ENOENT, logs any other rejection, and throws nothing.
EvictionFailureHandling ==
  /\ \A h \in DOMAIN timers :
       timers[h].state = "fired" => ~Has(documents, timers[h].id)
  /\ \A e \in evictionLog :
       /\ ~Has(documents, e.id)
       /\ e.catch.logged <=> e.code \notin {"ok", "ENOENT"}
       /\ ~e.catch.thrown

\* A timer's unlink was rejected with EPERM: logged, the file still on disk,
\* no entry.
EvictionUnlinkFailed ==
  \E e \in evictionLog :
    /\ e.code = "EPERM"
    /\ e.catch.logged
    /\ Has(disk, e.id)
    /\ ~Has(documents, e.id)

\* C23: an entry is registered under the id that names its file, no id is
\* registered twice, and no two entries of the registry have the same path.
UniqueStorage ==
  /\ \A id \in DOMAIN documents :
       /\ documents[id].path = id
       /\ timers[documents[id].timeout].id = id
  /\ \A g, h \in DOMAIN timers : g # h => timers[g].id # timers[h].id
  /\ \A a, b \in DOMAIN documents : a # b => documents[a].path # documents[b].path

\* Two documents are registered at once, each with its file and its timer.
SeveralRegistered ==
  \E a, b \in DOMAIN documents :
    /\ a # b
    /\ Has(disk, documents[a].path) /\ Has(disk, documents[b].path)
    /\ documents[a].timeout # documents[b].timeout

\* C24: whatever the two environment variables hold, the limit and the TTL
\* in force are positive, in megabytes and minutes as in bytes and
\* milliseconds: a finite positive value is taken as it is, anything else
\* gives 25 MB and 30 minutes.
ConfigFallback ==
  LET valid(e) == e.kind = "num" /\ (e.n >= 1 \/ (e.n = 0 /\ e.frac))
  IN /\ IsPositive(uploadLimitMb) /\ uploadLimitBytes > 0
     /\ IsPositive(documentTtlMinutes) /\ IsPositive(documentTtlMs)
     /\ uploadLimitMb = IF valid(env.UPLOAD_LIMIT_MB) THEN env.UPLOAD_LIMIT_MB
                        ELSE EnvNum(DefaultUploadLimitMb)
     /\ documentTtlMinutes = IF valid(env.DOCUMENT_TTL_MINUTES)
                             THEN env.DOCUMENT_TTL_MINUTES
                             ELSE EnvNum(DefaultTtlMinutes)

\* Started with DOCUMENT_TTL_MINUTES=0 and UPLOAD_LIMIT_MB=-1, the server
\* has a limit of 25 MB and registered a file for 30 minutes.
DefaultsInForce ==
  /\ env.DOCUMENT_TTL_MINUTES = EnvNum(0)
  /\ env.UPLOAD_LIMIT_MB = EnvNum(-1)
  /\ IsPost /\ response.status = 201
  /\ uploadLimitBytes = DefaultUploadLimitMb * BytesPerMb
  /\ \E id \in DOMAIN documents :
       documents[id].expiresAt = issued[id].createdAt + DefaultTtlMinutes

\* C25: the index of a mounted Flipbook is one of its pages; no turn is
\* asked for past either end; a Flipbook that got a new list of pages is at
\* index 0 with no animation.
IndexInRange ==
  flipbook.mounted =>
    /\ flipbook.len >= 1
    /\ flipbook.currentIndex \in 0 .. (flipbook.len - 1)
    /\ (flipbook.pending.currentIndex.set
          => flipbook.pending.currentIndex.value \in 0 .. (flipbook.len - 1))
    /\ ((flipbook.pending.animation.set /\ flipbook.pending.animation.value # NoAnimation)
          => flipbook.pending.animation.value.targetIndex \in 0 .. (flipbook.len - 1))
    /\ (flipbook.animation # NoAnimation
          => flipbook.animation.targetIndex \in 0 .. (flipbook.len - 1))
    /\ (flipbook.last = "mount"
          => (flipbook.currentIndex = 0 /\ flipbook.animation = NoAnimation
              /\ flipbook.progress = 0 /\ ~flipbook.frame.scheduled))

\* ArrowRight on the last page of several, reached by turning: nothing asked.
ForwardAtLastPage ==
  /\ flipbook.mounted
  /\ flipbook.len >= 2
  /\ flipbook.currentIndex = flipbook.len - 1
  /\ flipbook.last = "ignoredAtEdge"
  /\ flipbook.pending = NoPending

\* C26 as claimed: no turn is asked for during a turn, a turn goes to the
\* page next to the one shown, and every turn that started ends at its
\* target with no animation and progress 0.
OneTurnAtATimeAlways ==
  /\ [](flipbook.mounted =>
          /\ (flipbook.animation # NoAnimation
                => (/\ flipbook.animation.targetIndex - flipbook.currentIndex \in {-1, 1}
                    /\ ~(flipbook.pending.animation.set
                          /\ flipbook.pending.animation.value # NoAnimation)))
          /\ ((flipbook.pending.animation.set /\ flipbook.pending.animation.value # NoAnimation)
                => flipbook.pending.animation.value.targetIndex - flipbook.currentIndex
                     \in {-1, 1}))
  /\ \A t \in 0 .. (MaxPages - 1) :
       (flipbook.animation # NoAnimation /\ flipbook.animation.targetIndex = t)
         ~> (/\ flipbook.last = "turned"
             /\ flipbook.currentIndex = t
             /\ flipbook.animation = NoAnimation
             /\ flipbook.progress = 0)

\* C26: no turn is asked for during a turn, a turn goes to the page next to
\* the one shown, and every turn that started ends at its target with no
\* animation and progress 0, unless App takes the Flipbook away first.
OneTurnAtATime ==
  /\ [](flipbook.mounted =>
          /\ (flipbook.animation # NoAnimation
                => (/\ flipbook.animation.targetIndex - flipbook.currentIndex \in {-1, 1}
                    /\ ~(flipbook.pending.animation.set
                          /\ flipbook.pending.animation.value # NoAnimation)))
          /\ ((flipbook.pending.animation.set /\ flipbook.pending.animation.value # NoAnimation)
                => flipbook.pending.animation.value.targetIndex - flipbook.currentIndex
                     \in {-1, 1}))
  /\ \A t \in 0 .. (MaxPages - 1) :
       (flipbook.animation # NoAnimation /\ flipbook.animation.targetIndex = t)
         ~> (\/ ~flipbook.mounted
             \/ /\ flipbook.last = "turned"
                /\ flipbook.currentIndex = t
                /\ flipbook.animation = NoAnimation
                /\ flipbook.progress = 0)

\* A turn ended on its target after a request made during it was turned down.
TurnedAfterRefusal ==
  /\ flipbook.mounted
  /\ flipbook.last = "turned"
  /\ flipbook.refused
  /\ flipbook.currentIndex >= 1
  /\ flipbook.animation = NoAnimation
  /\ flipbook.progress = 0

\* C27: downloadStream makes at most six requests, one and the five that
\* follow a redirect, and rejects with 'Too many redirects' on the sixth
\* redirect and then only; it resolves with a response of status 200 only,
\* and rejects when the last response has another status that is no redirect.
BoundedRedirects ==
  /\ script.requests <= MaxRedirects + 1
  /\ script.redirectCount <= MaxRedirects + 1
  /\ script.pc = "get" => script.requests = script.redirectCount + 1
  /\ script.error = "Too many redirects"
       <=> (script.download = "rejected" /\ script.redirectCount = MaxRedirects + 1)
  /\ script.error = "Too many redirects" => script.requests = MaxRedirects + 1
  /\ script.download = "resolved" => script.status = 200
  /\ (script.status # 0 /\ script.status # 200
        /\ ~(script.status >= 300 /\ script.status < 400))
       => (script.download = "rejected" /\ script.error = "status")

\* The sixth response was a redirect as well.
TooManyRedirects ==
  /\ script.pc = "ended"
  /\ script.download = "rejected"
  /\ script.error = "Too many redirects"
  /\ script.requests = MaxRedirects + 1
  /\ script.status = 302

\* C28: public/cmaps is as the run found it unless the download resolved and
\* the archive was unpacked with a cmaps directory in it; a run that fails
\* before or at that check ends with exit code 1 and public/cmaps as found.
DestinationKept ==
  /\ script.destination # script.found
       => (script.download = "resolved" /\ script.archive = "cmaps")
  /\ (script.pc = "ended"
        /\ script.failedAt \in {"resolvePdfjsVersion", "download", "rmTemp",
                                 "mkdirTemp", "extract", "access"})
       => (script.destination = script.found /\ script.exitCode = 1)

\* The archive had no cmaps directory: the copy installed before is there.
KeptInstalledCopy ==
  /\ script.pc = "ended"
  /\ script.failedAt = "access"
  /\ script.archive = "other"
  /\ script.found = "installed"
  /\ script.destination = "installed"
  /\ script.exitCode = 1

Next ==
  \/ Upload
  \/ \E id \in Ids : GetArrives(id)
  \/ \E r \in BagToSet(inflight) : GetSendFile(r)
  \/ \E id \in Ids : DeleteArrives(id)
  \/ \E r \in BagToSet(inflight) : DeleteUnlink(r)
  \/ \E h \in DOMAIN timers : TimerFire(h)
  \/ \E u \in unlinks : UnlinkSettles(u)
  \/ \E p \in DOMAIN disk : ExternalDelete(p)
  \/ Tick

Spec == Init /\ [][Next]_vars

\* The viewer in one tab.
ClientNext ==
  \/ handleFileChange
  \/ ReleaseSettles
  \/ UploadSettles
  \/ FetchSettles
  \/ ReleaseNewSettles
  \/ LocalRead
  \/ RenderSettles
  \/ ReleaseFailedSettles
  \/ handleClear
  \/ Unmount
  \/ TabClose

ClientSpec == Init /\ [][ClientNext]_vars

\* The same server when randomUUID() may repeat a value.
CollisionNext ==
  \/ Next
  \/ UploadCollides

CollisionSpec == Init /\ [][CollisionNext]_vars

\* The same server started with any of the TTLs of AnyTtlEnvs.
TtlSpec == TtlInit /\ [][Next]_vars

\* The registry with several documents in it: uploads, evictions, releases.
RegistryNext ==
  \/ UploadMore
  \/ \E id \in Ids : DeleteArrives(id)
  \/ \E r \in BagToSet(inflight) : DeleteUnlink(r)
  \/ \E h \in DOMAIN timers : TimerFire(h)
  \/ \E u \in unlinks : UnlinkSettles(u)
  \/ Tick

RegistrySpec == Init /\ [][RegistryNext]_vars

\* The server started in any environment of ConfigLimitEnvs and
\* ConfigTtlEnvs: uploads, which the limit bounds, and evictions, which the
\* TTL times.
ConfigNext ==
  \/ Upload
  \/ \E h \in DOMAIN timers : TimerFire(h)
  \/ \E u \in unlinks : UnlinkSettles(u)
  \/ Tick

ConfigSpec == ConfigInit /\ [][ConfigNext]_vars

\* The Flipbook as App shows it and the user and the browser drive it.
FlipbookNext ==
  \/ FlipbookMount
  \/ FlipbookUnmount
  \/ ClickNext
  \/ ClickPrevious
  \/ \E key \in {"ArrowRight", "ArrowLeft", "Escape"} : onKeyDown(key)
  \/ tick
  \/ FlipbookRender

FlipbookSpec == Init /\ [][FlipbookNext]_vars

\* React renders the updates it has queued, and the browser calls the frame
\* callbacks it was asked for (the tab is looked at).
FlipbookFairSpec ==
  FlipbookSpec /\ WF_vars(FlipbookRender) /\ WF_vars(tick)

\* One run of fetch-cmaps.mjs.
ScriptNext ==
  \/ RunScript
  \/ resolvePdfjsVersion
  \/ downloadStream
  \/ getResponse
  \/ getError
  \/ rmTemp
  \/ mkdirTemp
  \/ extract
  \/ access
  \/ rmDestination
  \/ rename
  \/ rmTempAgain

ScriptSpec == Init /\ [][ScriptNext]_vars
====
